---- MODULE Spec2Model ----
(***************************************************************************)
(* The pillars of wisdom: the quote navigator (cyclic, random-with-history *)
(* and preloading revisions of the useQuotes composable), the ThemeToggle  *)
(* component, native sharing, the citation and share text conversions and  *)
(* the view's conditional rendering, as state machines.                    *)
(***************************************************************************)
EXTENDS Integers, Sequences, FiniteSets, TLC

\* ------------------------------------------------------------------ bounds
MaxTotal == 3
MaxHist == 3
MaxDraws == 2
MaxInst == 2
MaxParts == 3
MaxPickLength == 5

\* number of past handler calls remembered in navLog
Window == MaxTotal + 1

VARIABLES
    quotes,        \* the bundled dataset (quotes.json), fixed after load
    policy,        \* which revision of useQuotes is loaded: "cyclic" | "random"
    currentIndex,  \* ref(0)
    history,       \* ref<number[]>([]), random revision only
    navLog,        \* the last Window handler calls, each with the state it started from
    storageAvail,  \* whether localStorage can be accessed in this environment
    stored,        \* localStorage[STORAGE_KEY]
    attr,          \* <html data-theme="...">
    isDark,        \* ref(false)
    phase,         \* ThemeToggle lifecycle: "created" | "mounted" | "failed"
    saved,         \* const saved of the last onMounted run
    ambient,       \* what matchMedia("(prefers-color-scheme: dark)") would report
    themeLog,      \* the last two theme handler calls with their effects
    instances,     \* preloading revision: currentIndex of each useQuotes() call, NotCreated before it
    preloaded,     \* const preloaded = new Set<string>(), module scope
    fetchCount,    \* per image path, how many times an Image with that src was created
    preLog,        \* the last handler run of the preloading revision and its preloadImage calls
    fetchPending,  \* image paths whose load, started by preloadImage, has not finished
    canNativeShare, \* typeof navigator.share === "function" in this environment
    sharePending,  \* a navigator.share promise is outstanding
    shareLog,      \* the last share event and whether an error escaped the handler
    text,          \* props.text of Citation / ShareButtons / NativeShareButton
    author,        \* props.author, NoAuthor when not passed
    html,          \* citationHtml as rendered, Unset before
    shared,        \* the text handed to sharing, Unset before
    sharedBy,      \* the component that built it
    pc,            \* pickNewIndex: "idle" | "loop" | "done"
    pickCurrent,   \* pickNewIndex: argument current
    pickLength,    \* pickNewIndex: argument length
    pickNext,      \* pickNewIndex: let next
    pickParity     \* pickNewIndex: number of draws made so far, modulo 2

navVars == <<quotes, policy, currentIndex, history, navLog>>
themeVars == <<storageAvail, stored, attr, isDark, phase, saved, ambient, themeLog>>
preloadVars == <<instances, preloaded, fetchCount, preLog, fetchPending>>
shareVars == <<canNativeShare, sharePending, shareLog>>
textVars == <<text, author, html, shared, sharedBy>>
pickVars == <<pc, pickCurrent, pickLength, pickNext, pickParity>>
vars == <<quotes, policy, currentIndex, history, navLog,
          storageAvail, stored, attr, isDark, phase, saved, ambient, themeLog,
          instances, preloaded, fetchCount, preLog, fetchPending,
          canNativeShare, sharePending, shareLog,
          text, author, html, shared, sharedBy,
          pc, pickCurrent, pickLength, pickNext, pickParity>>

\* ------------------------------------------------------------- dataset
Null == [null |-> TRUE]

QuoteItem(i) == [id |-> i, text |-> i]

Dataset(n) == [i \in 1..n |-> QuoteItem(i)]

total == Len(quotes)

\* quotes[currentIndex.value] ?? null
currentQuote ==
    IF total = 0 THEN Null
    ELSE IF currentIndex + 1 \in DOMAIN quotes THEN quotes[currentIndex + 1]
    ELSE Null

currentPositionZeroBased == IF total = 0 THEN 0 ELSE currentIndex

currentPosition == IF total = 0 THEN 0 ELSE currentIndex + 1

canPrevByIndex == currentIndex > 0

canPrev == Len(history) > 0

\* Keeps the last Window entries of the log.
Remember(log, e) ==
    IF Len(log) < Window THEN Append(log, e)
    ELSE Append(SubSeq(log, 2, Len(log)), e)

NavEntry(op) == [op |-> op, index |-> currentIndex, history |-> history]

\* ------------------------------------------------------ cyclic revision
CyclicNextClamp(idx, n) == IF idx + 1 < n THEN idx + 1 ELSE idx

CyclicNextNoWrap(idx, n) == idx + 1

CyclicNext(idx, n) == (idx + 1) % n

\* JavaScript remainder keeps the sign of the dividend
CyclicPrevNoOffset(idx, n) == IF idx - 1 < 0 THEN -((1 - idx) % n) ELSE (idx - 1) % n

CyclicPrev(idx, n) == (idx - 1 + n) % n

NextQuoteCyclic ==
    /\ policy = "cyclic"
    /\ currentIndex' = IF total = 0 THEN currentIndex ELSE CyclicNext(currentIndex, total)
    /\ navLog' = Remember(navLog, NavEntry("next"))
    /\ UNCHANGED <<quotes, policy, history>>
    /\ UNCHANGED <<themeVars, preloadVars, shareVars, textVars, pickVars>>

PrevQuoteCyclic ==
    /\ policy = "cyclic"
    /\ currentIndex' = IF total = 0 THEN currentIndex ELSE CyclicPrev(currentIndex, total)
    /\ navLog' = Remember(navLog, NavEntry("prev"))
    /\ UNCHANGED <<quotes, policy, history>>
    /\ UNCHANGED <<themeVars, preloadVars, shareVars, textVars, pickVars>>

\* ------------------------------------------- random-with-history revision
\* pickNewIndex has not returned after consuming all the draws it was given
Pending == -1

\* Math.floor(Math.random() * length) yields a value of 0..length-1; a run of
\* pickNewIndex consumes a finite sequence of such draws.
DrawSeqs(length) == UNION {[1..k -> 0..(length - 1)] : k \in 0..MaxDraws}

RECURSIVE pickLoop(_, _, _)
pickLoop(next, current, draws) ==
    IF next # current THEN next
    ELSE IF draws = <<>> THEN Pending
    ELSE pickLoop(Head(draws), current, Tail(draws))

pickFirstDraw(current, length, draws) ==
    IF length <= 1 THEN 0
    ELSE IF draws = <<>> THEN Pending
    ELSE Head(draws)

pickNewIndex(current, length, draws) ==
    IF length <= 1 THEN 0 ELSE pickLoop(current, current, draws)

\* value returned by history.value.pop() on a non-empty array
PopFirst(h) == h[1]

PopValue(h) == h[Len(h)]

NextQuoteRandomNoGuard ==
    /\ policy = "random"
    /\ Len(history) < MaxHist
    /\ \E draws \in DrawSeqs(total) :
          LET picked == pickNewIndex(currentIndex, total, draws) IN
          /\ picked # Pending
          /\ history' = Append(history, currentIndex)
          /\ currentIndex' = picked
    /\ navLog' = Remember(navLog, NavEntry("next"))
    /\ UNCHANGED <<quotes, policy>>
    /\ UNCHANGED <<themeVars, preloadVars, shareVars, textVars, pickVars>>

NextQuoteRandomSplice ==
    /\ policy = "random"
    /\ Len(history) < MaxHist
    /\ \E draws \in DrawSeqs(total) :
          LET picked == pickNewIndex(currentIndex, total, draws) IN
          /\ picked # Pending
          /\ IF total = 0
             THEN UNCHANGED <<currentIndex, history, quotes>>
             ELSE /\ history' = Append(history, currentIndex)
                  /\ currentIndex' = IF picked = total - 1 THEN 0 ELSE picked
                  /\ quotes' = SubSeq(quotes, 1, total - 1)
    /\ navLog' = Remember(navLog, NavEntry("next"))
    /\ UNCHANGED policy
    /\ UNCHANGED <<themeVars, preloadVars, shareVars, textVars, pickVars>>

NextQuoteRandom ==
    /\ policy = "random"
    /\ Len(history) < MaxHist
    /\ \E draws \in DrawSeqs(total) :
          LET picked == pickNewIndex(currentIndex, total, draws) IN
          /\ picked # Pending
          /\ IF total = 0
             THEN UNCHANGED <<currentIndex, history>>
             ELSE /\ history' = Append(history, currentIndex)
                  /\ currentIndex' = picked
    /\ navLog' = Remember(navLog, NavEntry("next"))
    /\ UNCHANGED <<quotes, policy>>
    /\ UNCHANGED <<themeVars, preloadVars, shareVars, textVars, pickVars>>

PrevQuoteRandomPeek ==
    /\ policy = "random"
    /\ IF history = <<>>
       THEN UNCHANGED <<currentIndex, history>>
       ELSE /\ currentIndex' = PopValue(history)
            /\ history' = history
    /\ navLog' = Remember(navLog, NavEntry("prev"))
    /\ UNCHANGED <<quotes, policy>>
    /\ UNCHANGED <<themeVars, preloadVars, shareVars, textVars, pickVars>>

PrevQuoteRandom ==
    /\ policy = "random"
    /\ IF history = <<>>
       THEN UNCHANGED <<currentIndex, history>>
       ELSE /\ currentIndex' = PopValue(history)
            /\ history' = SubSeq(history, 1, Len(history) - 1)
    /\ navLog' = Remember(navLog, NavEntry("prev"))
    /\ UNCHANGED <<quotes, policy>>
    /\ UNCHANGED <<themeVars, preloadVars, shareVars, textVars, pickVars>>

\* ------------------------------------------------------------ ThemeToggle
STORAGE_KEY == "good-mood.theme"

\* stored: "absent" when getItem would return null, else the stored string
StoredValues == {"absent", "dark", "light", "junk"}

\* ambient: "dark"/"light" is the .matches answer, "unavailable" when window
\* or window.matchMedia does not exist
AmbientValues == {"dark", "light", "unavailable"}

ThemeName(dark) == IF dark THEN "dark" ELSE "light"

ResolveAmbientFirst(sv, amb) ==
    IF amb = "dark" \/ amb = "light" THEN amb = "dark" ELSE sv = "dark"

ResolveDarkOnly(sv, amb) ==
    IF sv = "dark" THEN TRUE ELSE amb = "dark"

ResolveAnyStored(sv, amb) ==
    IF sv # "absent" THEN sv = "dark" ELSE amb = "dark"

\* the value assigned to isDark by onMounted
ResolveIsDark(sv, amb) ==
    IF sv = "dark" \/ sv = "light" THEN sv = "dark" ELSE amb = "dark"

\* Effects of the applyTheme calls of one handler run: the attribute and the
\* stored value they leave, the values written to each in order, and whether
\* an exception has escaped.
NoEffects == [attr |-> attr, stored |-> stored, calls |-> 0,
              attrWrites |-> <<>>, storageWrites |-> <<>>, threw |-> FALSE]

applyThemeDarkOnly(dark, fx) ==
    LET theme == ThemeName(dark)
        a == [fx EXCEPT !.calls = @ + 1, !.attr = theme,
                        !.attrWrites = Append(@, theme)]
    IN  IF fx.threw THEN fx
        ELSE IF ~storageAvail THEN [a EXCEPT !.threw = TRUE]
        ELSE IF ~dark THEN a
        ELSE [a EXCEPT !.stored = theme, !.storageWrites = Append(@, theme)]

applyThemeFlip(dark, fx) ==
    LET theme == IF fx.attr = ThemeName(dark) THEN ThemeName(~dark) ELSE ThemeName(dark)
        a == [fx EXCEPT !.calls = @ + 1, !.attr = theme,
                        !.attrWrites = Append(@, theme)]
    IN  IF fx.threw THEN fx
        ELSE IF ~storageAvail THEN [a EXCEPT !.threw = TRUE]
        ELSE [a EXCEPT !.stored = theme, !.storageWrites = Append(@, theme)]

applyThemeNoPersist(dark, fx) ==
    LET theme == ThemeName(dark)
        a == [fx EXCEPT !.calls = @ + 1, !.attr = theme,
                        !.attrWrites = Append(@, theme)]
    IN  IF fx.threw THEN fx
        ELSE IF ~storageAvail THEN [a EXCEPT !.threw = TRUE]
        ELSE a

\* applyTheme(dark): setAttribute, then localStorage.setItem, which throws when
\* localStorage cannot be accessed
applyTheme(dark, fx) ==
    LET theme == ThemeName(dark)
        a == [fx EXCEPT !.calls = @ + 1, !.attr = theme,
                        !.attrWrites = Append(@, theme)]
    IN  IF fx.threw THEN fx
        ELSE IF ~storageAvail THEN [a EXCEPT !.threw = TRUE]
        ELSE [a EXCEPT !.stored = theme, !.storageWrites = Append(@, theme)]

ThemeEntry(op, fx) ==
    [op |-> op, isDark |-> isDark, attr |-> attr, stored |-> stored, phase |-> phase,
     calls |-> fx.calls, attrWrites |-> fx.attrWrites,
     storageWrites |-> fx.storageWrites, threw |-> fx.threw]

RememberTheme(log, e) ==
    IF Len(log) < 2 THEN Append(log, e) ELSE <<log[2], e>>

\* onMounted, followed by the watcher run it queues when it changed isDark
OnMounted ==
    /\ phase = "created"
    /\ IF ~storageAvail
       THEN \* localStorage.getItem throws: nothing after it runs
            /\ phase' = "failed"
            /\ themeLog' = RememberTheme(themeLog,
                               ThemeEntry("mount", [NoEffects EXCEPT !.threw = TRUE]))
            /\ UNCHANGED <<stored, attr, isDark, saved>>
       ELSE LET dark == ResolveIsDark(stored, ambient)
                direct == applyTheme(dark, NoEffects)
                fx == IF dark # isDark THEN applyTheme(dark, direct) ELSE direct
            IN  /\ saved' = stored
                /\ isDark' = dark
                /\ attr' = fx.attr
                /\ stored' = fx.stored
                /\ phase' = "mounted"
                /\ themeLog' = RememberTheme(themeLog, ThemeEntry("mount", fx))
    /\ UNCHANGED <<storageAvail, ambient>>
    /\ UNCHANGED <<navVars, preloadVars, shareVars, textVars, pickVars>>

\* a click on the checkbox: v-model flips isDark, the watcher calls applyTheme
Toggle ==
    /\ phase \in {"mounted", "failed"}
    /\ LET fx == applyTheme(~isDark, NoEffects)
       IN  /\ isDark' = ~isDark
           /\ attr' = fx.attr
           /\ stored' = fx.stored
           /\ themeLog' = RememberTheme(themeLog, ThemeEntry("toggle", fx))
    /\ UNCHANGED <<storageAvail, ambient, phase, saved>>
    /\ UNCHANGED <<navVars, preloadVars, shareVars, textVars, pickVars>>

\* ------------------------------------------------- preloading revision
Undefined == "<undefined>"

NotCreated == -1

\* "/authors/1.jpg" for records 1 and 2, "/authors/2.jpg" for 3 and 4, ...
PhotoPath(i) == "/authors/" \o ToString((i + 1) \div 2) \o ".jpg"

ImagePaths == {PhotoPath(i) : i \in 1..MaxTotal}

\* Records the bundled JSON may hold at position i: as QuoteItem types them
\* (image under author.photo), without author, also carrying the authorImage
\* field the watcher reads, and with empty image strings.
TypedItem(i) == [id |-> i, text |-> i, author |-> [photo |-> PhotoPath(i)]]

BareItem(i) == [id |-> i, text |-> i]

FlatItem(i) == [id |-> i, text |-> i, author |-> [photo |-> PhotoPath(i)],
                authorImage |-> PhotoPath(i)]

BlankItem(i) == [id |-> i, text |-> i, author |-> [photo |-> ""], authorImage |-> ""]

ItemVariants(i) == {TypedItem(i), BareItem(i), FlatItem(i), BlankItem(i)}

PreloadDatasets ==
    UNION {{d \in [1..n -> UNION {ItemVariants(i) : i \in 1..n}] :
               \A i \in 1..n : d[i] \in ItemVariants(i)} : n \in 0..MaxTotal}

\* (curr as any).authorImage
AuthorImageField(q) == IF "authorImage" \in DOMAIN q THEN q.authorImage ELSE Undefined

\* the author image of a record as QuoteAuthor declares it: author.photo
AuthorPhoto(q) == IF "author" \in DOMAIN q THEN q.author.photo ELSE Undefined

\* state threaded through the preloadImage calls of one handler run
PreloadState == [preloaded |-> preloaded, fetchCount |-> fetchCount, calls |-> <<>>]

PreloadCall(src, fetched, before, after) ==
    [src |-> src, fetched |-> fetched, before |-> before, after |-> after]

preloadImageNoDedupe(src, st) ==
    IF src = Undefined \/ src = ""
    THEN [st EXCEPT !.calls = Append(@, PreloadCall(src, FALSE, st.preloaded, st.preloaded))]
    ELSE [st EXCEPT !.preloaded = @ \cup {src},
                    !.fetchCount[src] = @ + 1,
                    !.calls = Append(@, PreloadCall(src, TRUE, st.preloaded,
                                                    st.preloaded \cup {src}))]

preloadImage(src, st) ==
    IF src = Undefined \/ src = ""
    THEN [st EXCEPT !.calls = Append(@, PreloadCall(src, FALSE, st.preloaded, st.preloaded))]
    ELSE IF src \in st.preloaded
    THEN [st EXCEPT !.calls = Append(@, PreloadCall(src, FALSE, st.preloaded, st.preloaded))]
    ELSE [st EXCEPT !.preloaded = @ \cup {src},
                    !.fetchCount[src] = @ + 1,
                    !.calls = Append(@, PreloadCall(src, TRUE, st.preloaded,
                                                    st.preloaded \cup {src}))]

\* the watch(currentIndex) callback
WatchIndex(idx, st) ==
    IF total = 0 THEN st
    ELSE LET curr == quotes[idx + 1]
             next == quotes[((idx + 1) % total) + 1]
         IN  preloadImage(AuthorImageField(next), preloadImage(AuthorImageField(curr), st))

\* the paths for which a handler run created an Image
FetchedIn(st) == {st.calls[j].src : j \in {k \in 1..Len(st.calls) : st.calls[k].fetched}}

\* one handler run of instance i that leaves its index at idx; the watcher
\* runs when ran is true
PreloadStep(i, op, idx, ran) ==
    LET st == IF ran THEN WatchIndex(idx, PreloadState) ELSE PreloadState
    IN  /\ instances' = [instances EXCEPT ![i] = idx]
        /\ preloaded' = st.preloaded
        /\ fetchCount' = st.fetchCount
        /\ fetchPending' = fetchPending \cup FetchedIn(st)
        /\ preLog' = [op |-> op, inst |-> i, index |-> instances[i], newIndex |-> idx,
                      ran |-> ran, calls |-> st.calls]
        /\ UNCHANGED <<navVars, themeVars, shareVars, textVars, pickVars>>

\* useQuotes(): currentIndex = ref(0) and the immediate run of the watcher
UseQuotes(i) ==
    /\ instances[i] = NotCreated
    /\ PreloadStep(i, "create", 0, TRUE)

NextQuotePreloadWhenIdle(i) ==
    /\ instances[i] # NotCreated
    /\ ~sharePending
    /\ fetchPending = {}
    /\ LET idx == IF total = 0 THEN instances[i] ELSE CyclicNext(instances[i], total)
       IN  PreloadStep(i, "next", idx, idx # instances[i])

NextQuotePreload(i) ==
    /\ instances[i] # NotCreated
    /\ LET idx == IF total = 0 THEN instances[i] ELSE CyclicNext(instances[i], total)
       IN  PreloadStep(i, "next", idx, idx # instances[i])

PrevQuotePreload(i) ==
    /\ instances[i] # NotCreated
    /\ LET idx == IF total = 0 THEN instances[i] ELSE CyclicPrev(instances[i], total)
       IN  PreloadStep(i, "prev", idx, idx # instances[i])

\* the load of an Image created by preloadImage ends, with the image in the
\* browser cache or with an error; preloadImage sets no onload or onerror,
\* so neither outcome reaches the program
FetchSettle(p) ==
    /\ p \in fetchPending
    /\ \E loaded \in BOOLEAN : fetchPending' = fetchPending \ {p}
    /\ UNCHANGED <<instances, preloaded, fetchCount, preLog>>
    /\ UNCHANGED <<navVars, themeVars, shareVars, textVars, pickVars>>

\* --------------------------------------------------------- native sharing
ShareEvent(event, calls, escaped) ==
    [event |-> event, calls |-> calls, escaped |-> escaped]

\* nativeShare() up to its await. navigator.share either returns a promise
\* that stays pending, or one that is already rejected (a share is still
\* open, or the call is not allowed); the rejection then leaves the async
\* handler, which has no try/catch.
NativeShareClick ==
    /\ IF ~canNativeShare
       THEN /\ shareLog' = ShareEvent("unsupported", 0, FALSE)
            /\ UNCHANGED sharePending
       ELSE IF sharePending
       THEN /\ shareLog' = ShareEvent("rejectedAtCall", 1, TRUE)
            /\ UNCHANGED sharePending
       ELSE \E refused \in BOOLEAN :
               /\ sharePending' = ~refused
               /\ shareLog' = IF refused THEN ShareEvent("rejectedAtCall", 1, TRUE)
                                         ELSE ShareEvent("called", 1, FALSE)
    /\ UNCHANGED canNativeShare
    /\ UNCHANGED <<navVars, themeVars, preloadVars, textVars, pickVars>>

\* the awaited promise settles: fulfilled when the share went through,
\* rejected when the user closed the sheet or the share failed
ShareSettle ==
    /\ sharePending
    /\ sharePending' = FALSE
    /\ \E fulfilled \in BOOLEAN :
          shareLog' = IF fulfilled THEN ShareEvent("fulfilled", 0, FALSE)
                                  ELSE ShareEvent("rejected", 0, TRUE)
    /\ UNCHANGED canNativeShare
    /\ UNCHANGED <<navVars, themeVars, preloadVars, textVars, pickVars>>

\* ------------------------------------- pickNewIndex, statement by statement
\* the values Math.floor(Math.random() * length) can take
DrawValues(length) == IF length <= 0 THEN {0} ELSE 0..(length - 1)

PickStep(newPc, next, parity) ==
    /\ pc' = newPc
    /\ pickNext' = next
    /\ pickParity' = parity
    /\ UNCHANGED <<pickCurrent, pickLength>>
    /\ UNCHANGED <<navVars, themeVars, preloadVars, shareVars, textVars>>

PickEnterNoGuard ==
    /\ pc = "idle"
    /\ PickStep("loop", pickCurrent, pickParity)

\* if (length <= 1) return 0; let next = current;
PickEnter ==
    /\ pc = "idle"
    /\ IF pickLength <= 1
       THEN PickStep("done", 0, pickParity)
       ELSE PickStep("loop", pickCurrent, pickParity)

\* one run of the loop body: while (next === current) next = <draw>
PickDraw(d) ==
    /\ pc = "loop"
    /\ pickNext = pickCurrent
    /\ PickStep("loop", d, 1 - pickParity)

\* the draw falls on the current index again
PickDrawSame == PickDraw(pickCurrent)

\* the draw falls on another index
PickDrawOther == \E d \in DrawValues(pickLength) \ {pickCurrent} : PickDraw(d)

\* the loop test fails: return next
PickReturn ==
    /\ pc = "loop"
    /\ pickNext # pickCurrent
    /\ PickStep("done", pickNext, pickParity)

\* ------------------------------------------------- citation and share text
\* A string is the sequence of its characters, each a one-character string.
BrTag == <<"<", "b", "r", ">">>

NewLine == <<"\n">>

\* the characters \s matches, of those that occur here
Whitespace == {" ", "\n", "\t"}

\* the letters of the two patterns under the i flag
Lower(c) ==
    CASE c = "B" -> "b" [] c = "R" -> "r" [] c = "L" -> "l"
      [] c = "T" -> "t" [] c = "G" -> "g" [] OTHER -> c

\* pieces a quote text is assembled from
Fragments ==
    { <<"<", "b", "r", ">">>, <<"<", "B", "R", "/", ">">>, <<"<", "b", "r", " ", "/", ">">>,
      <<"<", "b", "r">>, <<"<">>, <<">">>, <<"&">>, <<"\"">>, <<"'">>, <<"a">>, <<"\n">>,
      <<"&", "l", "t", ";", "b", "r", "&", "g", "t", ";">> }

RECURSIVE TextsOf(_)
TextsOf(k) ==
    IF k = 0 THEN {<<>>}
    ELSE LET shorter == TextsOf(k - 1)
         IN  shorter \cup {t \o f : t \in shorter, f \in Fragments}

Texts == TextsOf(MaxParts)

NoAuthor == <<Undefined>>

Authors == {NoAuthor, <<>>, <<"A">>}

\* String.prototype.replaceAll(c, rep) for a one-character pattern
RECURSIVE replaceAll(_, _, _)
replaceAll(s, c, rep) ==
    IF s = <<>> THEN <<>>
    ELSE (IF Head(s) = c THEN rep ELSE <<Head(s)>>) \o replaceAll(Tail(s), c, rep)

escapeHtmlAmpLast(input) ==
    replaceAll(replaceAll(replaceAll(replaceAll(replaceAll(input,
        "<", <<"&", "l", "t", ";">>),
        ">", <<"&", "g", "t", ";">>),
        "\"", <<"&", "q", "u", "o", "t", ";">>),
        "'", <<"&", "#", "0", "3", "9", ";">>),
        "&", <<"&", "a", "m", "p", ";">>)

escapeHtml(input) ==
    replaceAll(replaceAll(replaceAll(replaceAll(replaceAll(input,
        "&", <<"&", "a", "m", "p", ";">>),
        "<", <<"&", "l", "t", ";">>),
        ">", <<"&", "g", "t", ";">>),
        "\"", <<"&", "q", "u", "o", "t", ";">>),
        "'", <<"&", "#", "0", "3", "9", ";">>)

\* whether p occurs in s at position i, letters compared under the i flag
OccursAt(s, i, p) ==
    /\ i + Len(p) - 1 <= Len(s)
    /\ \A j \in 1..Len(p) : Lower(s[i + j - 1]) = Lower(p[j])

RECURSIVE SkipSpace(_, _)
SkipSpace(s, i) ==
    IF i <= Len(s) /\ s[i] \in Whitespace THEN SkipSpace(s, i + 1) ELSE i

\* /<open>br\s*\/?<close>/i tried at position i: the position after the
\* match, 0 when there is none
MatchEnd(s, i, open, close) ==
    IF ~OccursAt(s, i, open \o <<"b", "r">>) THEN 0
    ELSE LET k == SkipSpace(s, i + Len(open) + 2)
             afterSlash == IF k <= Len(s) /\ s[k] = "/" THEN k + 1 ELSE k
         IN  IF OccursAt(s, afterSlash, close) THEN afterSlash + Len(close)
             ELSE IF OccursAt(s, k, close) THEN k + Len(close)
             ELSE 0

\* String.prototype.replace with the g flag: matches are taken left to right,
\* never overlapping, and the replacement is not scanned again
RECURSIVE ReplaceFrom(_, _, _, _, _)
ReplaceFrom(s, i, open, close, rep) ==
    IF i > Len(s) THEN <<>>
    ELSE LET e == MatchEnd(s, i, open, close)
         IN  IF e = 0 THEN <<s[i]>> \o ReplaceFrom(s, i + 1, open, close, rep)
             ELSE rep \o ReplaceFrom(s, e, open, close, rep)

\* safe.replace(/&lt;br\s*\/?&gt;/gi, "<br>")
citationHtml(t) ==
    ReplaceFrom(escapeHtml(t), 1, <<"&", "l", "t", ";">>, <<"&", "g", "t", ";">>, BrTag)

\* input.replace(/<br\s*\/?>/gi, "\n")
toPlainText(input) == ReplaceFrom(input, 1, <<"<">>, <<">">>, NewLine)

\* " — ", the separator before the author
Separator == <<" ", "U+2014", " ">>

\* props.author ? `${plain} — ${props.author}` : plain
WithAuthor(plain, a) == IF a = NoAuthor \/ a = <<>> THEN plain ELSE plain \o Separator \o a

\* ShareButtons: shareText
shareText(t, a) == WithAuthor(toPlainText(t), a)

\* NativeShareButton: shareText
nativeShareText(t, a) == WithAuthor(t, a)

Unset == <<"<unset>">>

\* Citation renders: v-html="citationHtml"
RenderCitation ==
    /\ html = Unset
    /\ html' = citationHtml(text)
    /\ UNCHANGED <<text, author, shared, sharedBy>>
    /\ UNCHANGED <<navVars, themeVars, preloadVars, shareVars, pickVars>>

\* ShareButtons evaluates shareText for its links and for navigator.share
ShareButtonsText ==
    /\ sharedBy = "none"
    /\ shared' = shareText(text, author)
    /\ sharedBy' = "ShareButtons"
    /\ UNCHANGED <<text, author, html>>
    /\ UNCHANGED <<navVars, themeVars, preloadVars, shareVars, pickVars>>

\* NativeShareButton evaluates shareText for navigator.share
NativeShareButtonText ==
    /\ sharedBy = "none"
    /\ shared' = nativeShareText(text, author)
    /\ sharedBy' = "NativeShareButton"
    /\ UNCHANGED <<text, author, html>>
    /\ UNCHANGED <<navVars, themeVars, preloadVars, shareVars, pickVars>>

\* -------------------------------------------------------------------- view
\* HomeView: <p v-if="!currentQuote">Aucune citation disponible.</p>
ShowEmptyMessage == currentQuote = Null

\* HomeView: <div v-else class="container"> (card, navigation buttons, pager)
ShowCard == ~ShowEmptyMessage

FooterUnconditional == TRUE

\* HomeView: <footer v-if="currentQuote">
ShowFooter == currentQuote # Null

\* HomeView: <NativeShareButton v-if="canNativeShare">, whose template is
\* <button v-if="canShare">, the same test made by the child
NativeButtonInFooter == ShowFooter /\ canNativeShare /\ canNativeShare

ShareButtonsBesideNative == ShowFooter

\* HomeView: <ShareButtons v-else>
ShareButtonsMounted == ShowFooter /\ ~canNativeShare

\* ShareButtons: <template v-if="canNativeShare"> button
NativeButtonInShareButtons == ShareButtonsMounted /\ canNativeShare

\* ShareButtons: <template v-else> links to X and LinkedIn
ShareLinks == ShareButtonsMounted /\ ~canNativeShare

NativeButtonCount ==
    (IF NativeButtonInFooter THEN 1 ELSE 0) + (IF NativeButtonInShareButtons THEN 1 ELSE 0)

LinkGroupCount == IF ShareLinks THEN 1 ELSE 0

\* ------------------------------------------------------------ page reload
\* a new visit: the browser discards the page, so the document, every
\* component, composable and module-scoped value are created afresh and
\* nothing the old page started is outstanding; localStorage persists, the
\* bundled dataset and the environment's capabilities are the same, and the
\* system preference may have changed
Reload ==
    /\ phase \in {"mounted", "failed"}
    /\ phase' = "created"
    /\ isDark' = FALSE
    /\ attr' = "unset"
    /\ saved' = "unread"
    /\ ambient' \in AmbientValues
    /\ themeLog' = RememberTheme(themeLog, ThemeEntry("reload", NoEffects))
    /\ UNCHANGED <<storageAvail, stored>>
    /\ currentIndex' = 0
    /\ history' = <<>>
    /\ navLog' = <<>>
    /\ UNCHANGED <<quotes, policy>>
    /\ instances' = [i \in 1..MaxInst |-> NotCreated]
    /\ preloaded' = {}
    /\ fetchCount' = [p \in ImagePaths |-> 0]
    /\ fetchPending' = {}
    /\ preLog' = [op |-> "none", inst |-> 0, index |-> NotCreated, newIndex |-> NotCreated,
                  ran |-> FALSE, calls |-> <<>>]
    /\ sharePending' = FALSE
    /\ shareLog' = ShareEvent("none", 0, FALSE)
    /\ UNCHANGED canNativeShare
    /\ html' = Unset
    /\ shared' = Unset
    /\ sharedBy' = "none"
    /\ UNCHANGED <<text, author>>
    /\ pc' = "idle"
    /\ pickNext' = Pending
    /\ pickParity' = 0
    /\ UNCHANGED <<pickCurrent, pickLength>>

\* ---------------------------------------------------------- specifications
NavInit ==
    /\ quotes \in {Dataset(n) : n \in 0..MaxTotal}
    /\ policy \in {"cyclic", "random"}
    /\ currentIndex = 0
    /\ history = <<>>
    /\ navLog = <<>>

ThemeInit ==
    /\ storageAvail \in BOOLEAN
    /\ stored \in (IF storageAvail THEN StoredValues ELSE {"absent"})
    /\ ambient \in AmbientValues
    /\ attr = "unset"
    /\ isDark = FALSE
    /\ phase = "created"
    /\ saved = "unread"
    /\ themeLog = <<>>

PreloadInit ==
    /\ instances = [i \in 1..MaxInst |-> NotCreated]
    /\ preloaded = {}
    /\ fetchCount = [p \in ImagePaths |-> 0]
    /\ fetchPending = {}
    /\ preLog = [op |-> "none", inst |-> 0, index |-> NotCreated, newIndex |-> NotCreated,
                 ran |-> FALSE, calls |-> <<>>]

ShareInit ==
    /\ canNativeShare \in BOOLEAN
    /\ sharePending = FALSE
    /\ shareLog = ShareEvent("none", 0, FALSE)

TextInit ==
    /\ text \in Texts
    /\ author \in Authors
    /\ html = Unset
    /\ shared = Unset
    /\ sharedBy = "none"

\* no Citation or share component is looked at
TextIdle ==
    /\ text = <<>>
    /\ author = NoAuthor
    /\ html = Unset
    /\ shared = Unset
    /\ sharedBy = "none"

PickInit ==
    /\ pickLength \in 0..MaxPickLength
    /\ pickCurrent \in DrawValues(pickLength)
    /\ pc = "idle"
    /\ pickNext = Pending
    /\ pickParity = 0

\* pickNewIndex is not looked at statement by statement
PickIdle == PickInit /\ pickLength = 0

Init == NavInit /\ ThemeInit /\ PreloadInit /\ ShareInit /\ TextInit /\ PickInit

InitNav ==
    /\ NavInit
    /\ ThemeInit /\ storageAvail /\ stored = "absent" /\ ambient = "light"
    /\ PreloadInit
    /\ ShareInit /\ canNativeShare
    /\ TextIdle /\ PickIdle

InitTheme ==
    /\ NavInit /\ quotes = Dataset(MaxTotal) /\ policy = "cyclic"
    /\ ThemeInit
    /\ PreloadInit
    /\ ShareInit /\ canNativeShare
    /\ TextIdle /\ PickIdle

InitPreload ==
    /\ quotes \in PreloadDatasets
    /\ policy = "cyclic" /\ currentIndex = 0 /\ history = <<>> /\ navLog = <<>>
    /\ ThemeInit /\ storageAvail /\ stored = "absent" /\ ambient = "light"
    /\ PreloadInit
    /\ ShareInit /\ canNativeShare
    /\ TextIdle /\ PickIdle

NextNav == NextQuoteCyclic \/ PrevQuoteCyclic \/ NextQuoteRandom \/ PrevQuoteRandom

NextTheme == OnMounted \/ Toggle \/ Reload

InitShare ==
    /\ NavInit
    /\ ThemeInit /\ storageAvail /\ stored = "absent" /\ ambient = "light"
    /\ PreloadInit
    /\ ShareInit
    /\ TextIdle /\ PickIdle

NextShare == NativeShareClick \/ ShareSettle

NextPreload ==
    \E i \in 1..MaxInst : UseQuotes(i) \/ NextQuotePreload(i) \/ PrevQuotePreload(i)

InitText ==
    /\ NavInit /\ quotes = Dataset(MaxTotal) /\ policy = "cyclic"
    /\ ThemeInit /\ storageAvail /\ stored = "absent" /\ ambient = "light"
    /\ PreloadInit
    /\ ShareInit /\ canNativeShare
    /\ TextInit /\ PickIdle

NextText == RenderCitation \/ ShareButtonsText \/ NativeShareButtonText

InitPick ==
    /\ NavInit /\ quotes = Dataset(MaxTotal) /\ policy = "random"
    /\ ThemeInit /\ storageAvail /\ stored = "absent" /\ ambient = "light"
    /\ PreloadInit
    /\ ShareInit /\ canNativeShare
    /\ TextIdle /\ PickInit

NextPick == PickEnter \/ PickDrawSame \/ PickDrawOther \/ PickReturn

\* one page: a preloading navigator, the theme switch and the share button,
\* with the image loads and the share promise settling at any time
InitAsync ==
    /\ quotes = [i \in 1..MaxTotal |-> FlatItem(i)]
    /\ policy = "cyclic" /\ currentIndex = 0 /\ history = <<>> /\ navLog = <<>>
    /\ ThemeInit /\ storageAvail
    /\ PreloadInit
    /\ ShareInit /\ canNativeShare
    /\ TextIdle /\ PickIdle

NextAsync ==
    \/ UseQuotes(1) \/ NextQuotePreload(1) \/ PrevQuotePreload(1)
    \/ \E p \in ImagePaths : FetchSettle(p)
    \/ NativeShareClick \/ ShareSettle
    \/ OnMounted \/ Toggle

Next ==
    \/ NextNav \/ NextTheme \/ NextPreload \/ NextShare \/ NextText \/ NextPick
    \/ \E p \in ImagePaths : FetchSettle(p)

Spec == Init /\ [][Next]_vars

SpecNav == InitNav /\ [][NextNav]_vars

SpecTheme == InitTheme /\ [][NextTheme]_vars

SpecPreload == InitPreload /\ [][NextPreload]_vars

SpecShare == InitShare /\ [][NextNav \/ NextShare]_vars

SpecText == InitText /\ [][NextText]_vars

SpecAsync == InitAsync /\ [][NextAsync]_vars

\* The loop runs to completion once entered (WF on the steps), and the draw
\* is fair: an index that can be drawn again and again is eventually drawn.
SpecPick == InitPick /\ [][NextPick]_vars /\ WF_vars(NextPick) /\ SF_vars(PickDrawOther)

\* the same loop with no assumption on the draws
SpecPickUnfair == InitPick /\ [][NextPick]_vars /\ WF_vars(NextPick)

\* ------------------------------------------------------------- properties
\* the k-th most recent entry of a log (1 = the last handler call)
Recent(log, k) == log[Len(log) + 1 - k]

\* the last k entries of navLog exist and all record the operation op
LastAre(k, op) ==
    /\ Len(navLog) >= k
    /\ \A j \in 1..k : Recent(navLog, j).op = op

\* C1: on a non-empty collection, under either policy, after any sequence of
\* nextQuote/prevQuote calls the cursor is a valid index and currentQuote is
\* a record of the collection, never null.
C1_CursorInRange ==
    total > 0 =>
        /\ currentIndex \in 0..(total - 1)
        /\ currentQuote # Null
        /\ \E i \in DOMAIN quotes : quotes[i] = currentQuote

C1_Witness ==
    /\ policy = "cyclic"
    /\ total = MaxTotal
    /\ Len(navLog) = Window
    /\ currentIndex = 0
    /\ Recent(navLog, 1).op = "next"
    /\ Recent(navLog, 1).index = total - 1

\* C2: cyclic policy, non-empty collection: total consecutive nextQuote calls
\* (likewise total consecutive prevQuote calls) bring the cursor back to the
\* index it had before the first of them.
C2_FullCycleReturns ==
    (policy = "cyclic" /\ total > 0) =>
        \A op \in {"next", "prev"} :
            LastAre(total, op) => currentIndex = Recent(navLog, total).index

C2_Witness ==
    /\ policy = "cyclic"
    /\ total = MaxTotal
    /\ LastAre(total, "next")
    /\ Recent(navLog, total).index = 1
    /\ currentIndex = 1

\* C3: cyclic policy, non-empty collection: prevQuote right after nextQuote,
\* and nextQuote right after prevQuote, restore the index held before the pair.
C3_NextPrevInverse ==
    (policy = "cyclic" /\ total > 0 /\ Len(navLog) >= 2) =>
        LET a == Recent(navLog, 2)
            b == Recent(navLog, 1)
        IN  (a.op # b.op) => currentIndex = a.index

C3_Witness ==
    /\ policy = "cyclic"
    /\ total = MaxTotal
    /\ Len(navLog) >= 2
    /\ Recent(navLog, 2).op = "prev"
    /\ Recent(navLog, 2).index = 0
    /\ Recent(navLog, 1).op = "next"
    /\ Recent(navLog, 1).index = total - 1
    /\ currentIndex = 0

\* C4: random policy, non-empty collection: nextQuote followed at once by
\* prevQuote restores both the index and the history held before nextQuote,
\* whichever index was drawn.
C4_NextThenPrevRestores ==
    (policy = "random" /\ total > 0 /\ Len(navLog) >= 2) =>
        LET a == Recent(navLog, 2)
            b == Recent(navLog, 1)
        IN  (a.op = "next" /\ b.op = "prev") =>
                /\ currentIndex = a.index
                /\ history = a.history

C4_Witness ==
    /\ policy = "random"
    /\ total = MaxTotal
    /\ Len(navLog) >= 2
    /\ Recent(navLog, 2).op = "next"
    /\ Len(Recent(navLog, 2).history) = 2
    /\ Recent(navLog, 1).op = "prev"
    /\ Recent(navLog, 1).index # currentIndex
    /\ Len(history) = 2

\* C5: random policy: nextQuote leaves an index different from the one it
\* started from when total > 1, and index 0 when total <= 1.
C5_NextPicksOther ==
    (policy = "random" /\ Len(navLog) >= 1 /\ Recent(navLog, 1).op = "next") =>
        /\ total > 1 => currentIndex # Recent(navLog, 1).index
        /\ total <= 1 => currentIndex = 0

C5_Witness ==
    /\ policy = "random"
    /\ total = MaxTotal
    /\ Len(navLog) >= 2
    /\ Recent(navLog, 1).op = "next"
    /\ Recent(navLog, 1).index = 1
    /\ currentIndex = 2

\* C6: empty collection, either policy: currentQuote is null, total and
\* currentPosition are 0, and no nextQuote/prevQuote call moves the cursor
\* or touches the history.
C6_EmptyIsInert ==
    total = 0 =>
        /\ currentQuote = Null
        /\ Len(quotes) = 0
        /\ currentPosition = 0
        /\ currentIndex = 0
        /\ history = <<>>
        /\ \A j \in 1..Len(navLog) : navLog[j].index = 0 /\ navLog[j].history = <<>>

C6_Witness ==
    /\ policy = "random"
    /\ total = 0
    /\ Len(navLog) = Window
    /\ Recent(navLog, 1).op = "prev"
    /\ Recent(navLog, 2).op = "next"

\* the last theme handler call recorded
LastTheme == Recent(themeLog, 1)

\* C7: startup resolution: a stored "dark" (resp. "light") decides the theme
\* whatever the ambient signal; with nothing stored the ambient signal
\* decides, and a false or unavailable signal gives light.
C7_StartupResolution ==
    (Len(themeLog) >= 1 /\ LastTheme.op = "mount" /\ phase = "mounted") =>
        /\ saved = "dark" => (isDark /\ attr = "dark")
        /\ saved = "light" => (~isDark /\ attr = "light")
        /\ (saved = "absent" /\ ambient = "dark") => (isDark /\ attr = "dark")
        /\ (saved = "absent" /\ ambient \in {"light", "unavailable"}) =>
               (~isDark /\ attr = "light")

C7_Witness ==
    /\ Len(themeLog) >= 1
    /\ LastTheme.op = "mount"
    /\ phase = "mounted"
    /\ saved = "light"
    /\ ambient = "dark"
    /\ ~isDark

\* C8: once startup has completed, two successive user toggles bring isDark,
\* the data-theme attribute and the stored value back to what they were and
\* write to storage exactly twice.
C8_DoubleToggle ==
    (Len(themeLog) = 2 /\ themeLog[1].op = "toggle" /\ themeLog[2].op = "toggle"
        /\ themeLog[1].phase = "mounted") =>
        /\ isDark = themeLog[1].isDark
        /\ attr = themeLog[1].attr
        /\ stored = themeLog[1].stored
        /\ Len(themeLog[1].storageWrites) + Len(themeLog[2].storageWrites) = 2

C8_Witness ==
    /\ Len(themeLog) = 2
    /\ themeLog[1].op = "toggle"
    /\ themeLog[2].op = "toggle"
    /\ themeLog[1].phase = "mounted"
    /\ themeLog[1].stored = "light"
    /\ themeLog[2].stored = "dark"
    /\ stored = "light"

\* C9: startup resolution never throws, also when the ambient signal or the
\* persistence layer is unavailable: it completes and leaves a theme applied.
C9_StartupNeverThrows ==
    (Len(themeLog) >= 1 /\ LastTheme.op = "mount") =>
        /\ ~LastTheme.threw
        /\ phase = "mounted"
        /\ attr \in {"dark", "light"}

\* C10: every applyTheme call writes the attribute once and storage once, with
\* the same value, so after a handler has run its calls the attribute and the
\* stored value agree and are "dark" or "light".
C10_OneWriteEach ==
    \A j \in 1..Len(themeLog) :
        /\ Len(themeLog[j].attrWrites) = themeLog[j].calls
        /\ themeLog[j].storageWrites = themeLog[j].attrWrites
        /\ (j = Len(themeLog) /\ themeLog[j].calls > 0) =>
               (attr = stored /\ attr \in {"dark", "light"})

\* the observable state left by one applyTheme(dark) call made on its own
AfterApply(dark, a, st) ==
    applyTheme(dark, [NoEffects EXCEPT !.attr = a, !.stored = st])

\* C11: applyTheme(v) called twice leaves the data-theme attribute and the
\* stored value as one call does, for v dark and v light, from every state;
\* the two calls startup makes when it resolves dark leave what one leaves.
C11_ApplyIdempotent ==
    /\ \A v \in BOOLEAN :
          LET once == AfterApply(v, attr, stored)
              twice == AfterApply(v, once.attr, once.stored)
          IN  /\ twice.attr = once.attr
              /\ twice.stored = once.stored
    /\ \A j \in 1..Len(themeLog) :
          (j = Len(themeLog) /\ themeLog[j].calls = 2 /\ ~themeLog[j].threw) =>
              LET v == themeLog[j].attrWrites[1]
                  once == AfterApply(v = "dark", themeLog[j].attr, themeLog[j].stored)
              IN  /\ themeLog[j].attrWrites = <<v, v>>
                  /\ attr = once.attr
                  /\ stored = once.stored

C11_Witness ==
    /\ Len(themeLog) >= 1
    /\ LastTheme.op = "mount"
    /\ LastTheme.calls = 2
    /\ LastTheme.stored = "absent"
    /\ attr = "dark"
    /\ stored = "dark"

\* C12: the theme last applied during a visit whose startup completed is what
\* the next startup reads from storage and resolves, whatever the ambient
\* signal has become.
C12_StoredWinsNextStartup ==
    (Len(themeLog) = 2 /\ themeLog[1].op = "reload" /\ themeLog[1].phase = "mounted"
        /\ themeLog[2].op = "mount") =>
        /\ saved = themeLog[1].attr
        /\ isDark = (themeLog[1].attr = "dark")
        /\ attr = themeLog[1].attr
        /\ stored = themeLog[1].attr

C12_Witness ==
    /\ Len(themeLog) = 2
    /\ themeLog[1].op = "reload"
    /\ themeLog[1].phase = "mounted"
    /\ themeLog[1].attr = "light"
    /\ themeLog[2].op = "mount"
    /\ ambient = "dark"
    /\ ~isDark

\* C13: currentPosition is 0 on an empty collection and currentIndex + 1
\* otherwise, hence within 1..total on a non-empty one; index 1 of 3 gives 2.
C13_PositionOneBased ==
    /\ total = 0 => currentPosition = 0
    /\ total > 0 => (currentPosition - 1 = currentIndex /\ currentPosition \in 1..total)
    /\ (total = 3 /\ currentIndex = 1) => currentPosition = 2

C13_Witness ==
    /\ policy = "cyclic"
    /\ total = 3
    /\ Len(navLog) >= 1
    /\ currentIndex = 1
    /\ currentPosition = 2

\* C14: cyclic policy, non-empty collection: nextQuote moves to the following
\* index and from the last record to the first, prevQuote to the preceding
\* index and from the first record to the last; with 3 records three
\* nextQuote calls from index 0 visit 1, 2, 0.
C14_CyclicStep ==
    (policy = "cyclic" /\ total > 0 /\ Len(navLog) >= 1) =>
        LET e == Recent(navLog, 1) IN
        /\ e.op = "next" =>
              currentIndex = (IF e.index = total - 1 THEN 0 ELSE e.index + 1)
        /\ e.op = "prev" =>
              currentIndex = (IF e.index = 0 THEN total - 1 ELSE e.index - 1)
        /\ (total = 3 /\ Len(navLog) = 3 /\ LastAre(3, "next")) =>
              <<navLog[1].index, navLog[2].index, navLog[3].index, currentIndex>>
                  = <<0, 1, 2, 0>>

C14_Witness ==
    /\ policy = "cyclic"
    /\ total = 3
    /\ Len(navLog) = 3
    /\ LastAre(3, "next")
    /\ navLog[3].index = 2
    /\ currentIndex = 0

\* C15: random policy: canPrev holds exactly when history is non-empty; on a
\* non-empty collection it is false at the start, true after one nextQuote,
\* and false again, with index 0, after the prevQuote that follows.
C15_CanPrevIffHistory ==
    policy = "random" =>
        /\ canPrev <=> history # <<>>
        /\ (total > 0 /\ navLog = <<>>) => ~canPrev
        /\ (total > 0 /\ Len(navLog) = 1 /\ navLog[1].op = "next") => canPrev
        /\ (total > 0 /\ Len(navLog) = 2 /\ navLog[1].op = "next"
               /\ navLog[2].op = "prev") => (~canPrev /\ currentIndex = 0)

C15_Witness ==
    /\ policy = "random"
    /\ total = MaxTotal
    /\ Len(navLog) = 2
    /\ navLog[1].op = "next"
    /\ navLog[2].op = "prev"
    /\ navLog[2].index # 0
    /\ ~canPrev

\* index and history after the i-th recorded call
AfterCall(i) ==
    IF i = Len(navLog)
    THEN [index |-> currentIndex, history |-> history]
    ELSE [index |-> navLog[i + 1].index, history |-> navLog[i + 1].history]

BeforeCall(i) == [index |-> navLog[i].index, history |-> navLog[i].history]

\* the last 2k recorded calls are k nextQuote calls followed by k prevQuote calls
NextsThenPrevs(k) ==
    /\ Len(navLog) >= 2 * k
    /\ \A j \in 1..k : Recent(navLog, j).op = "prev"
    /\ \A j \in (k + 1)..(2 * k) : Recent(navLog, j).op = "next"

\* C16: random policy: prevQuote on an empty history changes nothing; on a
\* non-empty history it removes the last entry and makes it the index; k
\* nextQuote calls followed by k prevQuote calls walk back through the same
\* states in reverse and end where they started.
C16_PrevPopsLast ==
    policy = "random" =>
        /\ \A i \in 1..Len(navLog) :
              navLog[i].op = "prev" =>
                  IF navLog[i].history = <<>>
                  THEN AfterCall(i) = BeforeCall(i)
                  ELSE LET h == navLog[i].history IN
                       /\ AfterCall(i).history = SubSeq(h, 1, Len(h) - 1)
                       /\ AfterCall(i).index = h[Len(h)]
        /\ \A k \in 1..(Window \div 2) :
              (total > 0 /\ NextsThenPrevs(k)) =>
                  LET first == Len(navLog) - 2 * k + 1 IN
                  \A j \in 1..k :
                      AfterCall(first + k + j - 1) = BeforeCall(first + k - j)

C16_Witness ==
    /\ policy = "random"
    /\ total = MaxTotal
    /\ Len(navLog) = 4
    /\ NextsThenPrevs(2)
    /\ navLog[1].history = <<>>
    /\ navLog[3].index # navLog[2].index
    /\ history = <<>>
    /\ currentIndex = navLog[1].index

\* C17: no nextQuote/prevQuote call changes the backing collection: its
\* length, order and records stay as loaded.
C17_CollectionUntouched == [][quotes' = quotes]_vars

C17_Witness ==
    /\ policy = "random"
    /\ quotes = Dataset(MaxTotal)
    /\ Len(navLog) = Window
    /\ Len(history) = 2
    /\ currentIndex = MaxTotal - 1

\* C18: over a session and across all instances sharing the module's set, an
\* image is fetched at most once per path (exactly the paths in the set were
\* fetched, once each, and a fetch is made only for a path not yet in the
\* set); a call with an absent or empty path fetches nothing and leaves the
\* set as it was.
C18_FetchAtMostOnce ==
    /\ \A p \in ImagePaths :
          /\ fetchCount[p] <= 1
          /\ fetchCount[p] = 1 <=> p \in preloaded
    /\ \A j \in 1..Len(preLog.calls) :
          LET c == preLog.calls[j] IN
          /\ c.fetched => c.src \notin c.before
          /\ (c.src = Undefined \/ c.src = "") => (~c.fetched /\ c.after = c.before)

C18_Witness ==
    /\ preLog.inst = 2
    /\ preLog.op = "next"
    /\ Len(preLog.calls) = 2
    /\ preLog.calls[1].src \in ImagePaths
    /\ ~preLog.calls[1].fetched
    /\ preLog.calls[2].src = ""
    /\ fetchCount[preLog.calls[1].src] = 1

\* C19: on a non-empty collection, at first display and whenever the index
\* changes, preloadImage is called with the author image of the record at the
\* new index and then with that of the record at (index + 1) mod total, so
\* each of the two that exists has been fetched afterwards.
C19_PreloadsCurrentAndNext ==
    (total > 0 /\ preLog.op # "none"
        /\ (preLog.op = "create" \/ preLog.newIndex # preLog.index)) =>
        LET curr == AuthorPhoto(quotes[preLog.newIndex + 1])
            next == AuthorPhoto(quotes[((preLog.newIndex + 1) % total) + 1])
        IN  /\ preLog.ran
            /\ Len(preLog.calls) = 2
            /\ preLog.calls[1].src = curr
            /\ preLog.calls[2].src = next
            /\ \A p \in {curr, next} \cap ImagePaths : p \in preloaded

\* C20: a native share that fails (the sheet is closed, or navigator.share
\* throws or rejects) is absorbed by the click handler: no error leaves it,
\* and the share is not attempted again.
C20_ShareFailureAbsorbed ==
    shareLog.event \in {"rejected", "rejectedAtCall"} =>
        /\ ~shareLog.escaped
        /\ shareLog.calls <= 1

\* C21: navigator.share is invoked only where the environment reports support
\* for it; while a quote is shown exactly one share UI is rendered: the
\* native button where sharing is supported, the X/LinkedIn links where it is
\* not, never both and never neither.
C21_OneShareUi ==
    /\ shareLog.calls > 0 => canNativeShare
    /\ currentQuote # Null =>
          /\ NativeButtonCount + LinkGroupCount = 1
          /\ canNativeShare => (NativeButtonCount = 1 /\ LinkGroupCount = 0)
          /\ ~canNativeShare => (NativeButtonCount = 0 /\ LinkGroupCount = 1)

C21_Witness ==
    /\ canNativeShare
    /\ currentQuote # Null
    /\ Len(navLog) > 0
    /\ shareLog.event = "called"
    /\ NativeButtonCount = 1
    /\ LinkGroupCount = 0

\* the five entities escapeHtml writes
Entities ==
    { <<"&", "a", "m", "p", ";">>, <<"&", "l", "t", ";">>, <<"&", "g", "t", ";">>,
      <<"&", "q", "u", "o", "t", ";">>, <<"&", "#", "0", "3", "9", ";">> }

EntityOf(c) ==
    CASE c = "&" -> <<"&", "a", "m", "p", ";">>
      [] c = "<" -> <<"&", "l", "t", ";">>
      [] c = ">" -> <<"&", "g", "t", ";">>
      [] c = "\"" -> <<"&", "q", "u", "o", "t", ";">>
      [] c = "'" -> <<"&", "#", "0", "3", "9", ";">>
      [] OTHER -> <<c>>

StartsAt(s, i, p) == i + Len(p) - 1 <= Len(s) /\ SubSeq(s, i, i + Len(p) - 1) = p

\* the text read marker by marker: each <br>, <br/>, <br /> (any case) becomes
\* one "<br>", every other character its entity or itself
RECURSIVE MarkersKept(_, _)
MarkersKept(t, i) ==
    IF i > Len(t) THEN <<>>
    ELSE LET e == MatchEnd(t, i, <<"<">>, <<">">>)
         IN  IF e = 0 THEN EntityOf(t[i]) \o MarkersKept(t, i + 1)
             ELSE BrTag \o MarkersKept(t, e)

\* C22: in the output of citationHtml "<" occurs only as the first character
\* of the exact tag "<br>" and ">" only as its last; every other markup
\* character of the input is there as its entity; each <br>, <br/> or <br />
\* of the input, in any letter case, yields one "<br>".
C22_OnlyBrSurvives ==
    html # Unset =>
        /\ \A i \in 1..Len(html) :
              /\ html[i] = "<" => StartsAt(html, i, BrTag)
              /\ html[i] = ">" => (i >= 4 /\ StartsAt(html, i - 3, BrTag))
              /\ html[i] \notin {"\"", "'"}
              /\ html[i] = "&" => \E ent \in Entities : StartsAt(html, i, ent)
        /\ html = MarkersKept(text, 1)

C22_Witness ==
    /\ text = <<"<", "B", "R", "/", ">", "<", "&">>
    /\ html = <<"<", "b", "r", ">", "&", "l", "t", ";", "&", "a", "m", "p", ";">>

\* a line-break marker (<br>, <br/>, <br />, any case) occurs in s
HasMarker(s) == \E i \in 1..Len(s) : MatchEnd(s, i, <<"<">>, <<">">>) # 0

\* C23: the text handed to sharing has every line-break marker replaced by a
\* newline: it contains no line-break tag, and toPlainText applied to it
\* changes nothing.
C23_SharedTextHasNoMarker ==
    sharedBy # "none" =>
        /\ ~HasMarker(shared)
        /\ toPlainText(shared) = shared

\* a share promise or an image load is outstanding
Outstanding == sharePending \/ fetchPending # {}

\* a step in which an outstanding share or image load ends
Settles ==
    \/ sharePending /\ ~sharePending'
    \/ fetchPending' # fetchPending /\ fetchPending' \subseteq fetchPending

\* C24: navigation and theme toggling never wait on a pending share or image
\* load: while one is outstanding nextQuote, prevQuote and the theme switch
\* stay enabled; the end of the pending action, in success or in failure,
\* changes no navigator or theme state, and what a call produces is a
\* function of the navigator or theme state alone.
C24_NeverWaits ==
    /\ [](Outstanding =>
            /\ instances[1] # NotCreated =>
                  (ENABLED NextQuotePreload(1) /\ ENABLED PrevQuotePreload(1))
            /\ phase = "mounted" => ENABLED Toggle)
    /\ [][/\ Settles => UNCHANGED <<instances, preloaded, isDark, attr, stored, phase>>
          /\ (preLog' # preLog /\ preLog'.op = "next") =>
                instances'[1] = CyclicNext(instances[1], total)
          /\ (preLog' # preLog /\ preLog'.op = "prev") =>
                instances'[1] = CyclicPrev(instances[1], total)
          /\ (themeLog' # themeLog /\ LastTheme'.op = "toggle") =>
                (isDark' = ~isDark /\ attr' = ThemeName(~isDark))]_vars

C24_Witness ==
    /\ sharePending
    /\ preLog.op = "next"
    /\ preLog.calls[2].fetched
    /\ Cardinality(preloaded) = 2
    /\ fetchPending = preloaded
    /\ instances[1] = 1
    /\ Len(themeLog) = 2
    /\ LastTheme.op = "toggle"

\* C25: the "nothing available" message is shown exactly when currentQuote
\* is null, the quote card and the share footer exactly when it is not; with
\* an empty dataset the card and every share UI stay hidden in all states
\* navigation can reach.
C25_EmptyStateOrCard ==
    /\ ShowEmptyMessage <=> currentQuote = Null
    /\ ShowCard <=> currentQuote # Null
    /\ ShowFooter <=> currentQuote # Null
    /\ total = 0 =>
          /\ ShowEmptyMessage
          /\ ~ShowCard
          /\ ~ShowFooter
          /\ NativeButtonCount + LinkGroupCount = 0

C25_Witness ==
    /\ total = 0
    /\ Len(navLog) = Window
    /\ \E i \in 1..Len(navLog) : navLog[i].op = "next"
    /\ \E i \in 1..Len(navLog) : navLog[i].op = "prev"
    /\ ShowEmptyMessage
    /\ ~ShowCard

\* C26: a stored value that is present but is neither "dark" nor "light" is
\* treated as nothing stored: the ambient signal decides, and once startup
\* has completed the invalid value has been overwritten with the resolved
\* valid one.
C26_InvalidStoredIgnored ==
    (Len(themeLog) >= 1 /\ LastTheme.op = "mount" /\ phase = "mounted"
        /\ saved = "junk") =>
        /\ isDark = ResolveIsDark("absent", ambient)
        /\ isDark = (ambient = "dark")
        /\ attr = ThemeName(isDark)
        /\ stored = ThemeName(isDark)
        /\ LastTheme.stored = "junk"

C26_Witness ==
    /\ Len(themeLog) >= 1
    /\ LastTheme.op = "mount"
    /\ phase = "mounted"
    /\ saved = "junk"
    /\ ambient = "dark"
    /\ isDark
    /\ stored = "dark"

\* C27: a completed startup always leaves the resolved theme in storage, also
\* when nothing was stored before it; the startup of the next visit then
\* resolves from storage the theme the previous visit ended with (the one its
\* startup resolved, unless the user toggled), whatever the ambient signal
\* has become.
C27_StartupPersists ==
    /\ (Len(themeLog) >= 1 /\ LastTheme.op = "mount" /\ phase = "mounted") =>
          /\ stored = ThemeName(isDark)
          /\ LastTheme.storageWrites # <<>>
          /\ \A j \in 1..Len(LastTheme.storageWrites) :
                LastTheme.storageWrites[j] = ThemeName(isDark)
    /\ (Len(themeLog) = 2 /\ themeLog[1].op = "reload" /\ themeLog[1].phase = "mounted"
           /\ themeLog[2].op = "mount") =>
          /\ themeLog[1].stored = ThemeName(themeLog[1].isDark)
          /\ saved = ThemeName(themeLog[1].isDark)
          /\ isDark = themeLog[1].isDark

C27_Witness ==
    /\ Len(themeLog) = 2
    /\ themeLog[1].op = "reload"
    /\ themeLog[1].phase = "mounted"
    /\ themeLog[1].isDark
    /\ themeLog[2].op = "mount"
    /\ themeLog[2].stored = "dark"
    /\ ambient = "light"
    /\ isDark
    /\ stored = "dark"

\* recorded nextQuote calls, all of them and those made on a non-empty collection
NextCalls == Cardinality({j \in 1..Len(navLog) : navLog[j].op = "next"})

NextCallsPushing == IF total = 0 THEN 0 ELSE NextCalls

\* recorded prevQuote calls that found history non-empty
PrevCallsPopping ==
    Cardinality({j \in 1..Len(navLog) : navLog[j].op = "prev" /\ navLog[j].history # <<>>})

\* history when the first recorded call started; the log holds every call
\* made so far while it is shorter than Window
HistoryAtLogStart == IF navLog = <<>> THEN history ELSE navLog[1].history

ValidHistory ==
    /\ \A j \in 1..Len(history) : 0 <= history[j] /\ history[j] < total
    /\ total = 0 => history = <<>>

\* C28 as stated: random policy: every history entry is a valid index, history
\* is empty on an empty collection, and its length is the number of
\* nextQuote calls made minus the number of prevQuote calls that found
\* history non-empty.
C28_LengthCountsAllNextCalls ==
    policy = "random" =>
        /\ ValidHistory
        /\ Len(navLog) < Window => Len(history) = NextCalls - PrevCallsPopping

\* C28 amended: random policy: every history entry is a valid index, history
\* is empty on an empty collection, and its length is the number of
\* nextQuote calls made on a non-empty collection minus the number of
\* prevQuote calls that found history non-empty (over any run of calls, the
\* length changes by that difference).
C28_LengthCountsPushes ==
    policy = "random" =>
        /\ ValidHistory
        /\ Len(navLog) < Window => HistoryAtLogStart = <<>>
        /\ Len(history) - Len(HistoryAtLogStart) = NextCallsPushing - PrevCallsPopping

C28_Witness ==
    /\ policy = "random"
    /\ total = MaxTotal
    /\ Len(navLog) = 4
    /\ navLog[1].op = "prev" /\ navLog[1].history = <<>>
    /\ navLog[2].op = "next"
    /\ navLog[3].op = "next"
    /\ navLog[4].op = "prev"
    /\ Len(history) = 1

\* the indexes displayed so far that can still be walked back, oldest first,
\* ending with the one displayed now
Trail == Append(history, currentIndex)

\* C29: random policy with more than one quote: history followed by
\* currentIndex never holds the same index twice in a row, so a prevQuote
\* that finds history non-empty always changes the displayed quote.
C29_NoRepeatInTrail ==
    (policy = "random" /\ total > 1) =>
        /\ \A j \in 1..(Len(Trail) - 1) : Trail[j] # Trail[j + 1]
        /\ \A i \in 1..Len(navLog) :
              (navLog[i].op = "prev" /\ navLog[i].history # <<>>) =>
                  /\ AfterCall(i).index # BeforeCall(i).index
                  /\ quotes[AfterCall(i).index + 1] # quotes[BeforeCall(i).index + 1]

C29_Witness ==
    /\ policy = "random"
    /\ total = MaxTotal
    /\ Len(navLog) = 4
    /\ navLog[4].op = "prev"
    /\ Len(navLog[4].history) = 3
    /\ Len(history) = 2
    /\ currentIndex # navLog[4].index
    /\ history[2] = MaxTotal - 1

\* C30: pickNewIndex terminates for every current and length: at once, with
\* 0, when length <= 1; when length > 1 the redraw loop exits, with an index
\* other than current, provided the draw is fair (it does not fall on
\* current forever).
C30_PickTerminates ==
    /\ <>(pc = "done")
    /\ [][(pc = "idle" /\ pickLength <= 1) => (pc' = "done" /\ pickNext' = 0)]_vars
    /\ []((pc = "done" /\ pickLength > 1) =>
            (pickNext \in DrawValues(pickLength) /\ pickNext # pickCurrent))

C30_Witness ==
    /\ pc = "done"
    /\ pickLength = MaxPickLength
    /\ pickParity = 0
    /\ pickCurrent = 0
    /\ pickNext = pickLength - 1

====
